---- MODULE Spec2Model ----
(***************************************************************************)
(* A model of the retrieval core of in3120: the in-memory inverted index   *)
(* (invertedindex.py), the posting-list merger (postingsmerger.py), the    *)
(* N-of-M query evaluator (simplesearchengine.py) and the TF-IDF ranker    *)
(* (betterranker.py).                                                      *)
(*                                                                         *)
(* Texts are modelled as sequences of raw tokens: the tokenizer splits a   *)
(* text into its tokens, and joining texts with " " and tokenizing the     *)
(* result yields the concatenation of their token sequences.               *)
(***************************************************************************)
EXTENDS Integers, Sequences, FiniteSets, TLC

\* ------------------------------------------------------------------ bounds

\* Documents in a corpus handed to the index (index specification).
IndexMaxDocs == 2
\* Raw tokens in one field of a document.
MaxFieldLen == 1

\* Largest document identifier and term frequency in a posting stream handed to
\* the merger.
MaxDocId == 2
MaxTf == 2

\* Documents in a corpus searched by the engine, terms in a query, and the
\* largest hit_count.
EngineMaxDocs == 3
MaxQueryLen == 2
MaxHitCount == 2

\* The engine called with options of any value: the largest corpus.
OptionsMaxDocs == 2

\* Documents in a corpus scored by the ranker, and calls of update between two
\* calls of reset.
RankerMaxDocs == 2
MaxUpdates == 2

\* Raw tokens that occur in texts, and the fields the index is configured with.
RawTokens == {"A", "a", "b", "c"}
NumFields == 2

\* ------------------------------------------------------------ plain helpers

BoundedSeq(S, n) == UNION {[1..k -> S] : k \in 0..n}

RECURSIVE Flatten(_)
Flatten(ss) == IF ss = <<>> THEN <<>> ELSE Head(ss) \o Flatten(Tail(ss))

Range(s) == {s[i] : i \in 1..Len(s)}

\* ------------------------------------------------------------ collaborators

\* Python's None, where a text (a field value) is expected.
NoneText == <<"<None>">>

\* Python's None, where a term identifier is expected.
NoTermId == -1

\* Python's None, where a Posting is expected.
NonePosting == [document_id |-> -1, term_frequency |-> 0]

Posting(document_id, term_frequency) ==
    [document_id |-> document_id, term_frequency |-> term_frequency]

\* Normalizer.normalize: per-token case folding.
normalize(token) == IF token = "A" THEN "a" ELSE token

\* Normalizer.canonicalize followed by Tokenizer.strings: the tokens of a text.
strings(text) == text

\* Document.get_field(name, default): the field's text, or the default.
get_field(doc, field, default) ==
    IF doc.fields[field] = NoneText THEN default ELSE doc.fields[field]

\* InMemoryDictionary.add_if_absent: a new term gets the next unused identifier,
\* counted from 0 (term identifiers index the list of posting lists).
add_if_absent(dictionary, term) ==
    IF term \in Range(dictionary) THEN dictionary ELSE Append(dictionary, term)

\* InMemoryDictionary.get_term_id: the term's identifier, or None.
get_term_id(dictionary, term) ==
    IF term \in Range(dictionary)
    THEN (CHOOSE i \in 1..Len(dictionary) : dictionary[i] = term) - 1
    ELSE NoTermId

\* InMemoryPostingList.append_posting, get_iterator, get_length.
append_posting(posting_list, posting) == Append(posting_list, posting)
get_iterator(posting_list) == [items |-> posting_list, pos |-> 0]
get_length(posting_list) == Len(posting_list)

\* iter([]): an iterator over nothing.
EmptyIterator == [items |-> <<>>, pos |-> 0]

\* ------------------------------------------------------------ inverted index

\* collections.Counter(tokens).items(): each distinct token with its number of
\* occurrences, in order of first occurrence.
RECURSIVE Counter(_)
Counter(tokens) ==
    IF tokens = <<>> THEN <<>>
    ELSE LET t == Head(tokens)
             n == Cardinality({i \in 1..Len(tokens) : tokens[i] = t})
             rest == SelectSeq(Tail(tokens), LAMBDA u : u # t)
         IN  <<[term |-> t, count |-> n]>> \o Counter(rest)

\* " ".join([doc.get_field(field, None) for field in fields]): joining raises
\* TypeError when a field is missing (its value is None).
JoinRaises(doc) == \E f \in 1..NumFields : get_field(doc, f, NoneText) = NoneText
Join(doc) == Flatten([f \in 1..NumFields |-> get_field(doc, f, NoneText)])

\* One round of the inner loop of __build_index: the posting of one term of one
\* document.
IndexTerm(idx, term, count, doc_id) ==
    LET dictionary == add_if_absent(idx.dictionary, term)
        posting == Posting(doc_id, count)
        term_id == get_term_id(dictionary, term)
    IN  IF Len(idx.posting_lists) > term_id
        THEN [dictionary |-> dictionary,
              posting_lists |->
                  [idx.posting_lists EXCEPT
                      ![term_id + 1] = append_posting(@, posting)]]
        ELSE [dictionary |-> dictionary,
              posting_lists |->
                  Append(idx.posting_lists, append_posting(<<>>, posting))]

RECURSIVE IndexTerms(_, _, _)
IndexTerms(idx, items, doc_id) ==
    IF items = <<>> THEN idx
    ELSE IndexTerms(IndexTerm(idx, Head(items).term, Head(items).count, doc_id),
                    Tail(items), doc_id)

\* One round of the outer loop of __build_index: one document.
IndexDocument(idx, doc) ==
    LET line == Join(doc)
        tokens == strings(line)
        normalized_tokens == [i \in 1..Len(tokens) |-> normalize(tokens[i])]
    IN  IndexTerms(idx, Counter(normalized_tokens), doc.document_id)

EmptyIndex == [dictionary |-> <<>>, posting_lists |-> <<>>]

RECURSIVE IndexDocuments(_, _)
IndexDocuments(idx, docs) ==
    IF docs = <<>> THEN idx
    ELSE IndexDocuments(IndexDocument(idx, Head(docs)), Tail(docs))

\* InMemoryInvertedIndex.__init__, which runs __build_index: the index, or the
\* TypeError the build raises at the first document that lacks a field.
BuildRaises(docs) == \E i \in 1..Len(docs) : JoinRaises(docs[i])
build_index(docs) == IndexDocuments(EmptyIndex, docs)

\* InMemoryInvertedIndex.get_terms.
get_terms(buffer) ==
    LET terms == strings(buffer)
    IN  [i \in 1..Len(terms) |-> normalize(terms[i])]

\* "not term_id" in Python: true of None and of 0.
NotTermId(term_id) == term_id = NoTermId \/ term_id = 0

\* InMemoryInvertedIndex.get_postings_iterator.
get_postings_iterator(idx, term) ==
    LET term_id == get_term_id(idx.dictionary, term)
    IN  IF NotTermId(term_id) THEN EmptyIterator
        ELSE get_iterator(idx.posting_lists[term_id + 1])

\* InMemoryInvertedIndex.get_document_frequency.
get_document_frequency(idx, term) ==
    LET term_id == get_term_id(idx.dictionary, term)
    IN  IF NotTermId(term_id) THEN 0
        ELSE get_length(idx.posting_lists[term_id + 1])

\* ----------------------------------------------------------- iterators

\* next(iterator, None): the next posting, or None when the iterator is
\* exhausted; the iterator moves past what it returned.
next_value(it) ==
    IF it.pos < Len(it.items) THEN it.items[it.pos + 1] ELSE NonePosting
next_iter(it) ==
    IF it.pos < Len(it.items) THEN [it EXCEPT !.pos = @ + 1] ELSE it

\* ------------------------------------------------------------ PostingsMerger

\* A generator of PostingsMerger: the two input iterators, the locals, what it
\* has yielded so far, and where it stands ("idle", "loop", "drain", "done").
NoMerger ==
    [op |-> "none", p1 |-> EmptyIterator, p2 |-> EmptyIterator,
     posting_1 |-> NonePosting, posting_2 |-> NonePosting,
     prev_posting |-> NonePosting, yielded |-> <<>>, pc |-> "idle"]

\* The first two statements of each generator: posting_1 = next(p1, None) and
\* posting_2 = next(p2, None).
merger_start(op, l1, l2) ==
    [op |-> op,
     p1 |-> next_iter(get_iterator(l1)), p2 |-> next_iter(get_iterator(l2)),
     posting_1 |-> next_value(get_iterator(l1)),
     posting_2 |-> next_value(get_iterator(l2)),
     prev_posting |-> NonePosting, yielded |-> <<>>, pc |-> "loop"]

advance_1(g) ==
    [g EXCEPT !.posting_1 = next_value(g.p1), !.p1 = next_iter(g.p1)]
advance_2(g) ==
    [g EXCEPT !.posting_2 = next_value(g.p2), !.p2 = next_iter(g.p2)]
yield(g, posting) == [g EXCEPT !.yielded = Append(@, posting)]

\* intersection: "while posting_1 and posting_2".
intersection_guard(g) == g.posting_1 # NonePosting /\ g.posting_2 # NonePosting

\* intersection with its comparison the wrong way round.
intersection_round_reversed(g) ==
    IF g.posting_1.document_id = g.posting_2.document_id
    THEN advance_2(advance_1(yield(g, g.posting_1)))
    ELSE IF g.posting_1.document_id > g.posting_2.document_id
    THEN advance_1(g)
    ELSE advance_2(g)

\* intersection: one round of the loop.
intersection_round(g) ==
    IF g.posting_1.document_id = g.posting_2.document_id
    THEN advance_2(advance_1(yield(g, g.posting_1)))
    ELSE IF g.posting_1.document_id < g.posting_2.document_id
    THEN advance_1(g)
    ELSE advance_2(g)

\* set_difference: "while posting_1 and posting_2", then "while posting_1".
set_difference_guard(g) == g.posting_1 # NonePosting /\ g.posting_2 # NonePosting
set_difference_drain_guard(g) == g.posting_1 # NonePosting

\* set_difference that moves only posting_2 past an identifier both lists hold.
set_difference_round_keeps_common(g) ==
    IF g.posting_1.document_id < g.posting_2.document_id
    THEN advance_1(yield(g, g.posting_1))
    ELSE advance_2(g)

\* set_difference: one round of the first loop.
set_difference_round(g) ==
    IF g.posting_1.document_id < g.posting_2.document_id
    THEN advance_1(yield(g, g.posting_1))
    ELSE IF g.posting_1.document_id > g.posting_2.document_id
    THEN advance_2(g)
    ELSE advance_2(advance_1(g))

\* set_difference: one round of the second loop.
set_difference_drain(g) == advance_1(yield(g, g.posting_1))

\* union: "while posting_1 or posting_2".
union_guard(g) == g.posting_1 # NonePosting \/ g.posting_2 # NonePosting

\* union: "if posting != prev_posting: yield posting; prev_posting = posting".
\* Postings are compared as (document_id, term_frequency) pairs; on ascending
\* streams without duplicates the posting at hand always lies past
\* prev_posting, so comparing them by identity gives the same answer.
yield_if_new(g, posting) ==
    IF posting # g.prev_posting
    THEN [yield(g, posting) EXCEPT !.prev_posting = posting]
    ELSE g

\* union that moves only posting_1 past an identifier both lists hold.
union_round_advances_one(g) ==
    IF \/ g.posting_1 = NonePosting
       \/ /\ g.posting_2 # NonePosting
          /\ g.posting_2.document_id < g.posting_1.document_id
    THEN advance_2(yield_if_new(g, g.posting_2))
    ELSE advance_1(yield_if_new(g, g.posting_1))

\* union: one round of the loop.
union_round(g) ==
    IF \/ g.posting_1 = NonePosting
       \/ /\ g.posting_2 # NonePosting
          /\ g.posting_2.document_id < g.posting_1.document_id
    THEN advance_2(yield_if_new(g, g.posting_2))
    ELSE IF \/ g.posting_2 = NonePosting
            \/ g.posting_1.document_id < g.posting_2.document_id
    THEN advance_1(yield_if_new(g, g.posting_1))
    ELSE advance_2(advance_1(yield_if_new(g, g.posting_1)))

\* --------------------------------------------------------------------- Sieve

\* Sieve(size): keeps the size best (score, item) pairs offered to it.
Sieve(size) == [size |-> size, kept |-> <<>>]

\* The kept pair a better offer replaces: the worst-scored one, the one kept
\* last among equals.
Worst(kept) ==
    CHOOSE i \in 1..Len(kept) :
        /\ \A j \in 1..Len(kept) : kept[i].score <= kept[j].score
        /\ \A j \in 1..Len(kept) : kept[j].score = kept[i].score => j <= i

\* Sieve.sift(score, item).
sift(sieve, score, item) ==
    LET offer == [score |-> score, item |-> item]
    IN  IF Len(sieve.kept) < sieve.size
        THEN [sieve EXCEPT !.kept = Append(@, offer)]
        ELSE IF sieve.size > 0 /\ score > sieve.kept[Worst(sieve.kept)].score
        THEN LET w == Worst(sieve.kept)
             IN  [sieve EXCEPT !.kept =
                     Append(SubSeq(@, 1, w - 1) \o SubSeq(@, w + 1, Len(@)), offer)]
        ELSE sieve

\* Sieve.winners(): the kept pairs by descending score, equals in offer order.
RECURSIVE winners_of(_)
winners_of(kept) ==
    IF kept = <<>> THEN <<>>
    ELSE LET b == CHOOSE i \in 1..Len(kept) :
                      /\ \A j \in 1..Len(kept) : kept[j].score <= kept[i].score
                      /\ \A j \in 1..Len(kept) :
                            kept[j].score = kept[i].score => i <= j
         IN  <<kept[b]>> \o
             winners_of(SubSeq(kept, 1, b - 1) \o SubSeq(kept, b + 1, Len(kept)))
winners(sieve) == winners_of(sieve.kept)

\* ------------------------------------------------------- SimpleSearchEngine

\* What a Python function without a return or yield statement returns.
NoneResult == [kind |-> "None", items |-> <<>>]

NoEvaluation ==
    [pc |-> "idle", query |-> <<>>, match_threshold |-> 100, hit_count |-> 1,
     m |-> 0, n |-> 0, postings_lists |-> <<>>, all_cursors |-> <<>>,
     sieve |-> Sieve(0), result |-> NoneResult, raised |-> "none",
     origins |-> <<>>, min_doc_ids |-> <<>>, sifts |-> <<>>, ranker_calls |-> <<>>]

Max(a, b) == IF a >= b THEN a ELSE b
Min(a, b) == IF a <= b THEN a ELSE b

\* int(options['match_threshold'] * m), the threshold given in hundredths and
\* the product taken exactly (no floating-point rounding); int() truncates
\* towards zero.
threshold_times(match_threshold, m) ==
    IF match_threshold * m >= 0
    THEN (match_threshold * m) \div 100
    ELSE 0 - ((0 - match_threshold * m) \div 100)

\* n without the clamping to 1..m.
n_of_m_unclamped(match_threshold, m) == threshold_times(match_threshold, m)

\* n = max(1, min(m, int(options['match_threshold'] * m))).
n_of_m(match_threshold, m) == Max(1, Min(m, threshold_times(match_threshold, m)))

\* evaluate, up to the loop: the terms of the query, m and n, one postings
\* iterator per term of the query, the sieve, and each iterator's first posting.
\* Next to the function's variables the record keeps what the call has done:
\* origins[i] is the index in postings_lists of the iterator that produced
\* all_cursors[i], min_doc_ids the values of min_doc_id of the rounds so far,
\* sifts the calls of sieve.sift and ranker_calls the calls of the ranker's
\* methods (the function makes none: it never refers to its ranker argument).
evaluate_start(idx, buffer, match_threshold, hit_count) ==
    LET query == get_terms(buffer)
        m == Len(query)
        postings_lists ==
            [i \in 1..m |-> get_postings_iterator(idx, query[i])]
    IN  [pc |-> "loop", query |-> query,
         match_threshold |-> match_threshold, hit_count |-> hit_count,
         m |-> m, n |-> n_of_m(match_threshold, m),
         postings_lists |-> [i \in 1..m |-> next_iter(postings_lists[i])],
         all_cursors |-> [i \in 1..m |-> next_value(postings_lists[i])],
         sieve |-> Sieve(hit_count), result |-> NoneResult, raised |-> "none",
         origins |-> [i \in 1..m |-> i], min_doc_ids |-> <<>>, sifts |-> <<>>,
         ranker_calls |-> <<>>]

\* "while all_cursors and len(all_cursors) >= n".
loop_guard(e) == e.all_cursors # <<>> /\ Len(e.all_cursors) >= e.n

\* "cursor.document_id for cursor in all_cursors" raises AttributeError when a
\* cursor is None.
min_raises(e) == \E i \in 1..Len(e.all_cursors) : e.all_cursors[i] = NonePosting

min_doc_id(e) ==
    CHOOSE d \in {e.all_cursors[i].document_id : i \in 1..Len(e.all_cursors)} :
        \A i \in 1..Len(e.all_cursors) : d <= e.all_cursors[i].document_id

\* The positions in all_cursors of the cursors at the lowest document
\* identifier, in increasing order.
frontier(e) ==
    SelectSeq([i \in 1..Len(e.all_cursors) |-> i],
              LAMBDA i : /\ e.all_cursors[i] # NonePosting
                         /\ e.all_cursors[i].document_id = min_doc_id(e))

\* "for i, score in zip(frontier, scores): sieve.sift(score, document_id)".
RECURSIVE sift_all(_, _, _)
sift_all(sieve, cursors, positions) ==
    IF positions = <<>> THEN sieve
    ELSE sift_all(sift(sieve, cursors[Head(positions)].term_frequency,
                       cursors[Head(positions)].document_id),
                  cursors, Tail(positions))

\* "if len(frontier) >= n": the sieve after the round.
sifted(e) ==
    IF Len(frontier(e)) >= e.n
    THEN sift_all(e.sieve, e.all_cursors, frontier(e))
    ELSE e.sieve

\* The cursors at the end of a round in which line 79 assigns nothing.
advanced_cursors_unassigned(e) == e.all_cursors

\* "for i in frontier: all_cursors[i] = next(postings_lists[i], None)": the
\* position i is one in all_cursors, and is used on postings_lists as it is.
advanced_cursors(e) ==
    [i \in 1..Len(e.all_cursors) |->
        IF i \in Range(frontier(e))
        THEN next_value(e.postings_lists[i]) ELSE e.all_cursors[i]]
advanced_lists(e) ==
    [i \in 1..Len(e.postings_lists) |->
        IF i \in Range(frontier(e))
        THEN next_iter(e.postings_lists[i]) ELSE e.postings_lists[i]]

\* The iterator each cursor of the round's end came from: postings_lists[i]
\* for a frontier position i, the cursor's own otherwise.
advanced_origins(e) ==
    [i \in 1..Len(e.all_cursors) |->
        IF i \in Range(frontier(e)) THEN i ELSE e.origins[i]]

\* The calls of sieve.sift the round makes, in order.
round_sifts(e) ==
    IF Len(frontier(e)) >= e.n
    THEN [k \in 1..Len(frontier(e)) |->
             [score |-> e.all_cursors[frontier(e)[k]].term_frequency,
              item |-> e.all_cursors[frontier(e)[k]].document_id]]
    ELSE <<>>

\* The positions that survive
\* "all_cursors = [cursor for cursor in all_cursors if cursor is not None]".
not_none(e) ==
    SelectSeq([i \in 1..Len(e.all_cursors) |-> i],
              LAMBDA i : advanced_cursors(e)[i] # NonePosting)

\* One round of the loop, ending with
\* "all_cursors = [cursor for cursor in all_cursors if cursor is not None]".
loop_round(e) ==
    [e EXCEPT !.sieve = sifted(e),
              !.postings_lists = advanced_lists(e),
              !.all_cursors =
                  SelectSeq(advanced_cursors(e), LAMBDA c : c # NonePosting),
              !.origins =
                  [k \in 1..Len(not_none(e)) |-> advanced_origins(e)[not_none(e)[k]]],
              !.min_doc_ids = Append(@, min_doc_id(e)),
              !.sifts = @ \o round_sifts(e)]

\* ------------------------------------------------------------- BetterRanker

\* self._document_id = None.
NoDocumentId == 0 - 1

\* A document without the field "static_quality_score".
NoStaticScore == 0 - 1

\* math.log(x, 10) in thousandths, for the whole numbers it is taken of; the
\* logarithm of a quotient n / df is taken as the difference of the two.
Log10Milli(x) ==
    CASE x = 1 -> 0    [] x = 2 -> 301  [] x = 3 -> 477  [] x = 4 -> 602
      [] x = 5 -> 699  [] x = 6 -> 778  [] x = 7 -> 845  [] x = 8 -> 903
      [] x = 9 -> 954  [] x = 10 -> 1000

\* The weights are 1.0. Scores are kept in millionths, the static score of a
\* document is given in hundredths.
UnitWeight == 1

\* Corpus.size() and Corpus.get_document(document_id).
size(docs) == Len(docs)
NoDocument == [document_id |-> NoDocumentId]
get_document(docs, document_id) ==
    IF document_id + 1 \in 1..Len(docs) THEN docs[document_id + 1] ELSE NoDocument

\* Document.get_field("static_quality_score", default).
get_static_field(doc, default) ==
    IF doc.static_quality_score = NoStaticScore
    THEN default ELSE doc.static_quality_score * 10000

\* BetterRanker.__init__.
BetterRanker ==
    [score |-> 0, document_id |-> NoDocumentId,
     dynamic_score_weight |-> UnitWeight, static_score_weight |-> UnitWeight]

\* BetterRanker.reset.
reset(r, document_id) ==
    [score |-> 0, document_id |-> document_id,
     dynamic_score_weight |-> UnitWeight, static_score_weight |-> UnitWeight]

\* The exception a call of update ends with, without the assertion of the
\* document identifier.
update_raises_unasserted(r, idx, docs, term, posting) ==
    IF get_document_frequency(idx, term) = 0 THEN "ZeroDivisionError"
    ELSE IF get_document(docs, r.document_id) = NoDocument THEN "LookupError"
    ELSE "none"

\* The exception a call of update ends with: the assertion of line 39, the
\* division n / df of line 43, the lookup of the document of line 46.
update_raises(r, idx, docs, term, posting) ==
    IF r.document_id # posting.document_id THEN "AssertionError"
    ELSE IF get_document_frequency(idx, term) = 0 THEN "ZeroDivisionError"
    ELSE IF get_document(docs, r.document_id) = NoDocument THEN "LookupError"
    ELSE "none"

\* BetterRanker.update, when it raises nothing.
update(r, idx, docs, term, multiplicity, posting) ==
    LET tf == Log10Milli(posting.term_frequency + 1)
        df == get_document_frequency(idx, term)
        n == size(docs)
        idf == Log10Milli(n) - Log10Milli(df)
        tf_idf == tf * idf
        static_rank_score ==
            get_static_field(get_document(docs, r.document_id), 0)
    IN  [r EXCEPT !.score =
            @ + (multiplicity * tf_idf +
                 (static_rank_score * r.static_score_weight
                                    * r.dynamic_score_weight))]

\* BetterRanker.evaluate.
evaluate(r) == r.score

\* ------------------------------------------------------------------ corpora

\* A field's value: a text of at most MaxFieldLen raw tokens, or missing.
FieldValues == BoundedSeq(RawTokens, MaxFieldLen) \cup {NoneText}

\* The corpus assigns document identifiers 0, 1, 2, ... in iteration order.
Corpora(fieldValues, maxDocs) ==
    {[i \in 1..Len(fs) |-> [document_id |-> i - 1, fields |-> fs[i]]] :
        fs \in BoundedSeq([1..NumFields -> fieldValues], maxDocs)}

\* ------------------------------------------------------------------- state

VARIABLES
    corpus,         \* the corpus the index was built over
    built,          \* how the construction of the index ended: "ok", "TypeError"
    index,          \* the index's dictionary and posting lists
    lookup,         \* the last call made on the index and what it returned
    merger,         \* a running PostingsMerger generator: its locals and output
    evaluation,     \* a call of SimpleSearchEngine.evaluate: its locals and result
    ranker,         \* a BetterRanker: its fields
    call,           \* the last call made on the ranker and how it ended
    updates         \* the calls of update since the last reset that passed
                    \* the assertion of the document identifier

indexVars == <<corpus, built, index, lookup>>
rankerVars == <<ranker, call, updates>>
vars == <<corpus, built, index, lookup, merger, evaluation, ranker, call, updates>>

NoCall ==
    [op |-> "none", raised |-> "none", returned |-> 0,
     posting |-> NonePosting, before |-> BetterRanker]

NoLookup == [op |-> "none", term |-> "", df |-> 0, it |-> EmptyIterator]

\* The state after InMemoryInvertedIndex(corpus, fields, ...).
Constructed(docs) ==
    /\ corpus = docs
    /\ built = IF BuildRaises(docs) THEN "TypeError" ELSE "ok"
    /\ index = IF BuildRaises(docs) THEN EmptyIndex ELSE build_index(docs)

\* The terms a caller may ask the index about.
Terms == {normalize(t) : t \in RawTokens}

\* ------------------------------------------------- index specification

InitIndex ==
    /\ \E docs \in Corpora(FieldValues, IndexMaxDocs) : Constructed(docs)
    /\ lookup = NoLookup
    /\ merger = NoMerger
    /\ evaluation = NoEvaluation
    /\ ranker = BetterRanker
    /\ call = NoCall
    /\ updates = <<>>

CallGetDocumentFrequency ==
    /\ built = "ok"
    /\ \E term \in Terms :
          lookup' = [op |-> "get_document_frequency", term |-> term,
                     df |-> get_document_frequency(index, term),
                     it |-> EmptyIterator]
    /\ UNCHANGED <<corpus, built, index, merger, evaluation, rankerVars>>

CallGetPostingsIterator ==
    /\ built = "ok"
    /\ \E term \in Terms :
          lookup' = [op |-> "get_postings_iterator", term |-> term,
                     df |-> 0,
                     it |-> get_postings_iterator(index, term)]
    /\ UNCHANGED <<corpus, built, index, merger, evaluation, rankerVars>>

NextIndex == CallGetDocumentFrequency \/ CallGetPostingsIterator

SpecIndex == InitIndex /\ [][NextIndex]_vars

\* ------------------------------------------------ merger specification

DocIds == 0..MaxDocId
TermFrequencies == 1..MaxTf

RECURSIVE Ascending(_, _)
Ascending(ids, tf) ==
    IF ids = {} THEN <<>>
    ELSE LET d == CHOOSE x \in ids : \A y \in ids : x <= y
         IN  <<Posting(d, tf[d])>> \o Ascending(ids \ {d}, tf)

\* The posting streams handed to the merger: ascending by document
\* identifier, no identifier twice.
PostingStreams ==
    UNION {{Ascending(ids, tf) : tf \in [ids -> TermFrequencies]} :
              ids \in SUBSET DocIds}

InitMerger ==
    /\ Constructed(<<>>)
    /\ lookup = NoLookup
    /\ merger = NoMerger
    /\ evaluation = NoEvaluation
    /\ ranker = BetterRanker
    /\ call = NoCall
    /\ updates = <<>>

CallMerger(op) ==
    /\ merger.pc = "idle"
    /\ \E l1 \in PostingStreams, l2 \in PostingStreams :
          merger' = merger_start(op, l1, l2)
    /\ UNCHANGED <<indexVars, evaluation, rankerVars>>

CallIntersection == CallMerger("intersection")
CallSetDifference == CallMerger("set_difference")
CallUnion == CallMerger("union")

IntersectionRound ==
    /\ merger.op = "intersection" /\ merger.pc = "loop"
    /\ intersection_guard(merger)
    /\ merger' = intersection_round(merger)
    /\ UNCHANGED <<indexVars, evaluation, rankerVars>>

IntersectionReturn ==
    /\ merger.op = "intersection" /\ merger.pc = "loop"
    /\ ~intersection_guard(merger)
    /\ merger' = [merger EXCEPT !.pc = "done"]
    /\ UNCHANGED <<indexVars, evaluation, rankerVars>>

SetDifferenceRound ==
    /\ merger.op = "set_difference" /\ merger.pc = "loop"
    /\ set_difference_guard(merger)
    /\ merger' = set_difference_round(merger)
    /\ UNCHANGED <<indexVars, evaluation, rankerVars>>

SetDifferenceLoopExit ==
    /\ merger.op = "set_difference" /\ merger.pc = "loop"
    /\ ~set_difference_guard(merger)
    /\ merger' = [merger EXCEPT !.pc = "drain"]
    /\ UNCHANGED <<indexVars, evaluation, rankerVars>>

SetDifferenceDrain ==
    /\ merger.op = "set_difference" /\ merger.pc = "drain"
    /\ set_difference_drain_guard(merger)
    /\ merger' = set_difference_drain(merger)
    /\ UNCHANGED <<indexVars, evaluation, rankerVars>>

SetDifferenceReturn ==
    /\ merger.op = "set_difference" /\ merger.pc = "drain"
    /\ ~set_difference_drain_guard(merger)
    /\ merger' = [merger EXCEPT !.pc = "done"]
    /\ UNCHANGED <<indexVars, evaluation, rankerVars>>

UnionRound ==
    /\ merger.op = "union" /\ merger.pc = "loop"
    /\ union_guard(merger)
    /\ merger' = union_round(merger)
    /\ UNCHANGED <<indexVars, evaluation, rankerVars>>

UnionReturn ==
    /\ merger.op = "union" /\ merger.pc = "loop"
    /\ ~union_guard(merger)
    /\ merger' = [merger EXCEPT !.pc = "done"]
    /\ UNCHANGED <<indexVars, evaluation, rankerVars>>

NextMerger ==
    \/ CallIntersection \/ IntersectionRound \/ IntersectionReturn
    \/ CallSetDifference \/ SetDifferenceRound \/ SetDifferenceLoopExit
    \/ SetDifferenceDrain \/ SetDifferenceReturn
    \/ CallUnion \/ UnionRound \/ UnionReturn

SpecMerger == InitMerger /\ [][NextMerger]_vars

\* ------------------------------------------------ engine specification

\* The corpora the engine searches: every field of every document holds one
\* token.
EngineTokens == {"a", "b", "c"}
EngineFieldValues == {<<t>> : t \in EngineTokens}

\* The queries (texts) and options handed to evaluate; match_threshold is
\* given in hundredths (1 is 0.01, 67 is 0.67, 100 is 1.0).
QueryTokens == {"A", "b", "c"}
Queries == BoundedSeq(QueryTokens, MaxQueryLen)
MatchThresholds == {1, 67, 100}
HitCounts == 1..MaxHitCount

InitEngine ==
    /\ \E docs \in Corpora(EngineFieldValues, EngineMaxDocs) : Constructed(docs)
    /\ lookup = NoLookup
    /\ merger = NoMerger
    /\ evaluation = NoEvaluation
    /\ ranker = BetterRanker
    /\ call = NoCall
    /\ updates = <<>>

Evaluate ==
    /\ built = "ok"
    /\ evaluation.pc = "idle"
    /\ \E buffer \in Queries, match_threshold \in MatchThresholds,
          hit_count \in HitCounts :
          evaluation' = evaluate_start(index, buffer, match_threshold, hit_count)
    /\ UNCHANGED <<indexVars, merger, rankerVars>>

LoopRound ==
    /\ evaluation.pc = "loop"
    /\ loop_guard(evaluation)
    /\ ~min_raises(evaluation)
    /\ evaluation' = loop_round(evaluation)
    /\ UNCHANGED <<indexVars, merger, rankerVars>>

LoopRaise ==
    /\ evaluation.pc = "loop"
    /\ loop_guard(evaluation)
    /\ min_raises(evaluation)
    /\ evaluation' = [evaluation EXCEPT !.pc = "raised",
                                        !.raised = "AttributeError"]
    /\ UNCHANGED <<indexVars, merger, rankerVars>>

\* The loop ends and the function with it: nothing is returned or yielded.
Return ==
    /\ evaluation.pc = "loop"
    /\ ~loop_guard(evaluation)
    /\ evaluation' = [evaluation EXCEPT !.pc = "returned", !.result = NoneResult]
    /\ UNCHANGED <<indexVars, merger, rankerVars>>

NextEngine == Evaluate \/ LoopRound \/ LoopRaise \/ Return

SpecEngine == InitEngine /\ [][NextEngine]_vars

\* ------------------------------------- engine specification, any options

\* evaluate called with options of any value: thresholds at and below 0 and
\* above 1.0 next to the valid ones, hit counts from 0.
AnyMatchThresholds == MatchThresholds \cup {0 - 50, 0, 150}
AnyHitCounts == {0, 1}

InitOptions ==
    /\ \E docs \in Corpora(EngineFieldValues, OptionsMaxDocs) : Constructed(docs)
    /\ lookup = NoLookup
    /\ merger = NoMerger
    /\ evaluation = NoEvaluation
    /\ ranker = BetterRanker
    /\ call = NoCall
    /\ updates = <<>>

EvaluateAnyOptions ==
    /\ built = "ok"
    /\ evaluation.pc = "idle"
    /\ \E buffer \in Queries, match_threshold \in AnyMatchThresholds,
          hit_count \in AnyHitCounts :
          evaluation' = evaluate_start(index, buffer, match_threshold, hit_count)
    /\ UNCHANGED <<indexVars, merger, rankerVars>>

NextOptions == EvaluateAnyOptions \/ LoopRound \/ LoopRaise \/ Return

SpecOptions == InitOptions /\ [][NextOptions]_vars

\* --------------------------------------------------- ranker specification

\* The corpora the ranker scores documents of: every field holds one token,
\* and a document has a static quality score of 0.5 or none.
RankerFieldValues == {<<"a">>, <<"b">>}
StaticScores == {NoStaticScore, 50}
RankerCorpora ==
    {[i \in 1..Len(docs) |->
         [document_id |-> docs[i].document_id, fields |-> docs[i].fields,
          static_quality_score |-> q[i]]] :
        docs \in Corpora(RankerFieldValues, RankerMaxDocs),
        q \in [1..RankerMaxDocs -> StaticScores]}

\* The multiplicities of a term in a query.
Multiplicities == {1, 2}

InitRanker ==
    /\ \E docs \in RankerCorpora : Constructed(docs)
    /\ lookup = NoLookup
    /\ merger = NoMerger
    /\ evaluation = NoEvaluation
    /\ ranker = BetterRanker
    /\ call = NoCall
    /\ updates = <<>>

\* ranker.reset(document_id), for a document of the corpus.
CallReset ==
    /\ \E i \in 1..Len(corpus) :
          /\ ranker' = reset(ranker, corpus[i].document_id)
          /\ call' = [NoCall EXCEPT !.op = "reset", !.before = ranker]
    /\ updates' = <<>>
    /\ UNCHANGED <<indexVars, merger, evaluation>>

\* ranker.update(term, multiplicity, posting), for a term of the index and a
\* posting of its posting list.
CallUpdate ==
    /\ Len(updates) < MaxUpdates
    /\ \E k \in 1..Len(index.dictionary), multiplicity \in Multiplicities :
          \E p \in 1..Len(index.posting_lists[k]) :
              LET term == index.dictionary[k]
                  posting == index.posting_lists[k][p]
                  raised == update_raises(ranker, index, corpus, term, posting)
              IN  /\ ranker' =
                         IF raised = "none"
                         THEN update(ranker, index, corpus, term, multiplicity, posting)
                         ELSE ranker
                  /\ call' = [NoCall EXCEPT !.op = "update", !.raised = raised,
                                            !.posting = posting, !.before = ranker]
                  /\ updates' =
                         IF raised = "AssertionError" THEN updates
                         ELSE Append(updates,
                                     [term |-> term, multiplicity |-> multiplicity,
                                      posting |-> posting])
    /\ UNCHANGED <<indexVars, merger, evaluation>>

\* ranker.evaluate().
CallEvaluate ==
    /\ ranker' = ranker
    /\ call' = [NoCall EXCEPT !.op = "evaluate", !.returned = evaluate(ranker),
                              !.before = ranker]
    /\ UNCHANGED <<indexVars, merger, evaluation, updates>>

NextRanker == CallReset \/ CallUpdate \/ CallEvaluate

SpecRanker == InitRanker /\ [][NextRanker]_vars

\* ------------------------------------------------------------ properties

IdsOf(postings) == {postings[i].document_id : i \in 1..Len(postings)}

StrictlyAscending(postings) ==
    \A i \in 1..Len(postings) - 1 :
        postings[i].document_id < postings[i + 1].document_id

\* The normalized terms of a document's field text.
DocTerms(doc) == Range(get_terms(Join(doc)))

\* The identifiers of the documents that contain the term.
DocsContaining(term) ==
    {corpus[i].document_id : i \in {j \in 1..Len(corpus) : term \in DocTerms(corpus[j])}}

\* The number of occurrences of the term in the document.
CountIn(doc, term) ==
    LET text == get_terms(Join(doc))
    IN  Cardinality({i \in 1..Len(text) : text[i] = term})

\* One posting (document_id, count) per document that contains the term, in
\* corpus order.
RECURSIVE ExpectedPostings(_, _)
ExpectedPostings(docs, term) ==
    IF docs = <<>> THEN <<>>
    ELSE (IF term \in DocTerms(Head(docs))
          THEN <<Posting(Head(docs).document_id, CountIn(Head(docs), term))>>
          ELSE <<>>) \o ExpectedPostings(Tail(docs), term)

\* ---- PostingsMerger

\* C6: intersection yields the document identifiers both streams hold, each
\* once, in strictly ascending order.
IntersectionIsSetIntersection ==
    merger.op = "intersection" =>
        /\ StrictlyAscending(merger.yielded)
        /\ IdsOf(merger.yielded) \subseteq
               IdsOf(merger.p1.items) \cap IdsOf(merger.p2.items)
        /\ merger.pc = "done" =>
               IdsOf(merger.yielded) =
                   IdsOf(merger.p1.items) \cap IdsOf(merger.p2.items)

\* An intersection has ended that yielded a posting and skipped postings of
\* both streams.
IntersectionWitness ==
    /\ merger.op = "intersection" /\ merger.pc = "done"
    /\ merger.yielded # <<>>
    /\ IdsOf(merger.p1.items) \ IdsOf(merger.p2.items) # {}
    /\ IdsOf(merger.p2.items) \ IdsOf(merger.p1.items) # {}

\* C7: union yields one posting per document identifier found in either
\* stream, never two for an identifier both hold, in strictly ascending order.
UnionIsSetUnion ==
    merger.op = "union" =>
        /\ StrictlyAscending(merger.yielded)
        /\ IdsOf(merger.yielded) \subseteq
               IdsOf(merger.p1.items) \cup IdsOf(merger.p2.items)
        /\ merger.pc = "done" =>
               /\ IdsOf(merger.yielded) =
                      IdsOf(merger.p1.items) \cup IdsOf(merger.p2.items)
               /\ Len(merger.yielded) =
                      Cardinality(IdsOf(merger.p1.items) \cup IdsOf(merger.p2.items))

\* A union has ended over streams that share an identifier, with different
\* term frequencies, and each hold one the other lacks.
UnionWitness ==
    /\ merger.op = "union" /\ merger.pc = "done"
    /\ \E i \in 1..Len(merger.p1.items), j \in 1..Len(merger.p2.items) :
          /\ merger.p1.items[i].document_id = merger.p2.items[j].document_id
          /\ merger.p1.items[i] # merger.p2.items[j]
    /\ IdsOf(merger.p1.items) \ IdsOf(merger.p2.items) # {}
    /\ IdsOf(merger.p2.items) \ IdsOf(merger.p1.items) # {}

\* C8: set_difference yields the postings of p1 whose document identifier p2
\* lacks, in p1's (strictly ascending) order, the tail of p1 past the end of
\* p2 included.
SetDifferenceIsSetDifference ==
    merger.op = "set_difference" =>
        /\ StrictlyAscending(merger.yielded)
        /\ IdsOf(merger.yielded) \subseteq
               IdsOf(merger.p1.items) \ IdsOf(merger.p2.items)
        /\ merger.pc = "done" =>
               merger.yielded =
                   SelectSeq(merger.p1.items,
                             LAMBDA p : p.document_id \notin IdsOf(merger.p2.items))

\* A set_difference has ended that skipped a shared identifier and drained a
\* tail of p1 that lies past the last posting of p2.
SetDifferenceWitness ==
    /\ merger.op = "set_difference" /\ merger.pc = "done"
    /\ IdsOf(merger.p1.items) \cap IdsOf(merger.p2.items) # {}
    /\ merger.yielded # <<>>
    /\ \A d \in IdsOf(merger.p2.items) :
          d < merger.yielded[Len(merger.yielded)].document_id

\* ---- InMemoryInvertedIndex

\* C9: get_document_frequency(term) is the number of indexed documents whose
\* normalized field text contains the term (0 when none does).
DocumentFrequencyIsDocumentCount ==
    lookup.op = "get_document_frequency" =>
        lookup.df = Cardinality(DocsContaining(lookup.term))

\* C10: get_postings_iterator(term) is a fresh iterator over one posting
\* (document_id, count) per document that contains the term, in ascending
\* order of document_id; it is empty when no document contains the term.
PostingsIteratorIsPostingList ==
    lookup.op = "get_postings_iterator" =>
        /\ lookup.it.pos = 0
        /\ lookup.it.items = ExpectedPostings(corpus, lookup.term)
        /\ StrictlyAscending(lookup.it.items)

\* ---- SimpleSearchEngine

\* The call of evaluate has returned to its caller (it did not raise).
Returned == evaluation.pc = "returned"

\* The documents evaluate hands back to its caller.
EmittedIds ==
    {evaluation.result.items[i].document.document_id :
        i \in 1..Len(evaluation.result.items)}

\* M and N as the specification defines them: M the number of distinct terms
\* of the normalized query, N = clamp(floor(match_threshold * M), 1, M).
QueryTerms == Range(evaluation.query)
DistinctM == Cardinality(QueryTerms)
ClampedN == Max(1, Min(DistinctM, (evaluation.match_threshold * DistinctM) \div 100))

\* The documents that contain at least k of the distinct query terms.
Qualifying(k) ==
    {corpus[i].document_id :
        i \in {j \in 1..Len(corpus) :
                  Cardinality(DocTerms(corpus[j]) \cap QueryTerms) >= k}}

AllQueryTermsIndexed == \A t \in QueryTerms : DocsContaining(t) # {}

\* C1: for a query whose terms all occur in the index and a hit_count of at
\* least the number of documents, evaluate emits exactly the documents that
\* contain at least N of the M distinct query terms.
EvaluateEmitsNOfM ==
    /\ Returned
    /\ QueryTerms # {}
    /\ AllQueryTermsIndexed
    /\ evaluation.hit_count >= Len(corpus)
    => EmittedIds = Qualifying(ClampedN)

\* C2: evaluate's m is the number of distinct terms of the normalized query and
\* its n is clamp(floor(match_threshold * M), 1, M).
MAndNFromDistinctTerms ==
    evaluation.pc # "idle" /\ QueryTerms # {} =>
        /\ evaluation.m = DistinctM
        /\ evaluation.n = ClampedN

\* C3: with match_threshold = 1.0 evaluate returns only documents that contain
\* all M distinct query terms and, hit_count permitting, every one of them.
ThresholdOneIsAnd ==
    /\ Returned
    /\ QueryTerms # {}
    /\ evaluation.match_threshold = 100
    => /\ EmittedIds \subseteq Qualifying(DistinctM)
       /\ evaluation.hit_count >= Cardinality(Qualifying(DistinctM)) =>
              Qualifying(DistinctM) \subseteq EmittedIds

\* C4: with a match_threshold close to 0 (N = 1) evaluate returns, hit_count
\* permitting, every document that contains at least one query term.
ThresholdNearZeroIsOr ==
    /\ Returned
    /\ QueryTerms # {}
    /\ evaluation.match_threshold = 1
    /\ evaluation.hit_count >= Cardinality(Qualifying(1))
    => Qualifying(1) \subseteq EmittedIds

\* The Sieve's winners as records of a score and a document.
WinnersAsRecords ==
    LET w == winners(evaluation.sieve)
    IN  [i \in 1..Len(w) |->
            [score |-> w[i].score, document |-> corpus[w[i].item + 1]]]

\* C5: evaluate produces a sequence of records with keys "score" and
\* "document", of length at most hit_count, by descending score: the Sieve's
\* winners, their document identifiers replaced by the documents (stated of
\* the calls whose Sieve holds a winner).
EvaluateYieldsRankedRecords ==
    Returned /\ evaluation.sieve.kept # <<>> =>
        /\ evaluation.result.kind = "list"
        /\ Len(evaluation.result.items) <= evaluation.hit_count
        /\ \A i \in 1..Len(evaluation.result.items) - 1 :
              evaluation.result.items[i].score >= evaluation.result.items[i + 1].score
        /\ evaluation.result.items = WinnersAsRecords

\* The query holds a term that no document of the corpus contains.
OutOfVocabularyQuery == \E t \in QueryTerms : DocsContaining(t) = {}

\* C11: evaluate on a query that holds an out-of-vocabulary term does not
\* raise: the term's cursor is inactive from the start, so every cursor the
\* loop works on is a posting.
OutOfVocabularyTermIsInactive ==
    evaluation.pc # "idle" /\ OutOfVocabularyQuery =>
        /\ evaluation.pc # "raised"
        /\ \A i \in 1..Len(evaluation.all_cursors) :
              evaluation.all_cursors[i] # NonePosting

\* ---- InMemoryInvertedIndex, construction

\* Some document of the corpus lacks one of the configured fields.
SomeFieldMissing ==
    \E i \in 1..Len(corpus), f \in 1..NumFields :
        get_field(corpus[i], f, NoneText) = NoneText

\* The corpus with every missing field replaced by the empty text.
MissingAsEmpty(docs) ==
    [i \in 1..Len(docs) |->
        [docs[i] EXCEPT !.fields =
            [f \in 1..NumFields |-> IF @[f] = NoneText THEN <<>> ELSE @[f]]]]

\* C15: the construction of the index over a corpus in which a document lacks
\* a configured field succeeds, and the index is the one built with the
\* missing field taken as empty text.
MissingFieldIsEmptyText ==
    SomeFieldMissing =>
        /\ built = "ok"
        /\ index = build_index(MissingAsEmpty(corpus))

\* ---- SimpleSearchEngine, the merge loop

\* C16: every document the loop offers to the Sieve is offered once, and its
\* offer follows a call ranker.reset(document_id) and one call ranker.update
\* per frontier cursor (the offered score being ranker.evaluate()).
OneRankedOfferPerCandidate ==
    LET sifts == evaluation.sifts
        calls == evaluation.ranker_calls
    IN  /\ \A i, j \in 1..Len(sifts) : i # j => sifts[i].item # sifts[j].item
        /\ \A i \in 1..Len(sifts) :
              /\ \E k \in 1..Len(calls) :
                    /\ calls[k].op = "reset"
                    /\ calls[k].document_id = sifts[i].item
              /\ \E k \in 1..Len(calls) :
                    /\ calls[k].op = "update"
                    /\ calls[k].posting.document_id = sifts[i].item

\* The iterators of the running call that have postings left to give.
UnexhaustedLists ==
    {j \in 1..Len(evaluation.postings_lists) :
        evaluation.postings_lists[j].pos < Len(evaluation.postings_lists[j].items)}

InvalidOptions ==
    \/ evaluation.match_threshold <= 0
    \/ evaluation.match_threshold > 100
    \/ evaluation.hit_count < 1

\* C12, as stated: a call of evaluate with match_threshold outside (0, 1] or
\* hit_count below 1 raises an error before any retrieval is done.
InvalidOptionsAreRejected ==
    evaluation.pc # "idle" /\ InvalidOptions =>
        /\ evaluation.pc = "raised"
        /\ evaluation.postings_lists = <<>>
        /\ evaluation.sifts = <<>>

\* C12, amended: evaluate does not check its options. Called with
\* match_threshold outside (0, 1] or hit_count below 1 it opens one postings
\* iterator per query term and makes a Sieve of the given hit_count, with
\* n = 1 for a threshold of 0 or less and n = m (1 for an empty query) for a
\* threshold above 1; the only error it raises is the one of a None cursor.
OptionsAreNotChecked ==
    evaluation.pc # "idle" /\ InvalidOptions =>
        /\ Len(evaluation.postings_lists) = evaluation.m
        /\ evaluation.sieve.size = evaluation.hit_count
        /\ evaluation.match_threshold <= 0 => evaluation.n = 1
        /\ evaluation.match_threshold > 100 => evaluation.n = Max(1, evaluation.m)
        /\ evaluation.pc = "raised" => min_raises(evaluation)

\* A call with a threshold of 1.5 and a hit_count of 0 that ran the loop with
\* n = m = 2, offered a document to the Sieve and returned.
OptionsAreNotCheckedWitness ==
    /\ Returned
    /\ evaluation.match_threshold = 150
    /\ evaluation.hit_count = 0
    /\ evaluation.m = 2
    /\ evaluation.n = 2
    /\ evaluation.sifts # <<>>

\* ---- SimpleSearchEngine, termination of the merge loop

\* The rounds of the loop the running call has made.
Rounds == Len(evaluation.min_doc_ids)

\* The postings in the posting lists of the query's terms: the pairs of a
\* query term and a document that contains it.
TotalQueryPostings ==
    Cardinality({p \in QueryTerms \X (0..(Len(corpus) - 1)) :
                    p[2] \in DocsContaining(p[1])})

\* No term occurs twice in the query.
DistinctQueryTerms == Len(evaluation.query) = DistinctM

\* C18: the merge loop terminates within as many rounds as the posting lists
\* of the query's terms hold postings. The number of rounds made never
\* exceeds that total, and a call inside the loop can always take its next
\* step (a round, or the end of the loop), each round adding one to the count.
LoopTerminatesWithinPostings ==
    DistinctQueryTerms =>
        /\ Rounds <= TotalQueryPostings
        /\ evaluation.pc = "loop" => ENABLED (LoopRound \/ LoopRaise \/ Return)
        /\ evaluation.pc \in {"returned", "raised"} => ~ENABLED NextOptions

\* A call with two query terms of one posting each that needed as many rounds
\* as there are postings, and returned.
LoopTerminatesWitness ==
    /\ Returned
    /\ ~InvalidOptions
    /\ DistinctQueryTerms
    /\ AllQueryTermsIndexed
    /\ evaluation.m = 2
    /\ TotalQueryPostings = 2
    /\ Rounds = 2

\* ---- BetterRanker

\* The last call was an update whose posting is not of the document given to
\* the most recent reset (or no reset has been made).
MismatchedUpdate ==
    /\ call.op = "update"
    /\ call.posting.document_id # call.before.document_id

\* C13: a call of update with a posting of another document than the one last
\* given to reset, or before any reset, ends with an AssertionError and leaves
\* the ranker as it was: evaluate returns what it returned before the call.
MismatchedUpdateFailsUnchanged ==
    MismatchedUpdate =>
        /\ call.raised = "AssertionError"
        /\ ranker = call.before
        /\ evaluate(ranker) = evaluate(call.before)

\* A mismatched update made after a reset and an update that gave the
\* document a score.
MismatchedUpdateWitness ==
    /\ MismatchedUpdate
    /\ call.before.document_id # NoDocumentId
    /\ call.before.score > 0
    /\ updates # <<>>

\* A mismatched update made before any reset.
UpdateBeforeReset ==
    /\ MismatchedUpdate
    /\ call.before.document_id = NoDocumentId

\* What one update adds to the score, as the ranker is specified: multiplicity
\* times tf times idf, idf taken of the number of documents that contain the
\* term, plus the document's static quality score (0.0 when it has none).
Contribution(u) ==
    LET doc == corpus[u.posting.document_id + 1]
        tf == Log10Milli(u.posting.term_frequency + 1)
        idf == Log10Milli(Len(corpus))
                   - Log10Milli(Cardinality(DocsContaining(u.term)))
        static == IF doc.static_quality_score = NoStaticScore
                  THEN 0 ELSE doc.static_quality_score * 10000
    IN  u.multiplicity * tf * idf + static * UnitWeight * UnitWeight

RECURSIVE SumOfContributions(_)
SumOfContributions(us) ==
    IF us = <<>> THEN 0
    ELSE Contribution(Head(us)) + SumOfContributions(Tail(us))

\* C14: after reset(d) and K updates with postings of d, evaluate() is the sum
\* over those updates of multiplicity * tf * idf plus K times the static
\* quality score of d; nothing accumulated before the reset is part of it.
ScoreIsSumOfUpdates ==
    ranker.document_id # NoDocumentId =>
        evaluate(ranker) = SumOfContributions(updates)

====
